---------------------------- MODULE Spec2Model ----------------------------
(***************************************************************************)
(* ZapQ: the in-memory FIFO queue of fifo_queue_server.go.                 *)
(*                                                                         *)
(* The model follows the queue methods statement by statement: every       *)
(* goroutine has a program position (pc) and the locals of the method it   *)
(* is running; q.mu is a non-reentrant mutex; the three counters are       *)
(* process-wide.  Snapshot files are modelled as text, character by        *)
(* character, as encoding/json writes and reads a [][]byte (an array of    *)
(* base64 strings), on a file system with names, inodes and open handles.  *)
(***************************************************************************)
EXTENDS Integers, Sequences, FiniteSets, TLC

(***************************************************************************)
(* Sizes.  The caps of the program (128 KiB per item, 50000 messages,      *)
(* 256 MiB) are scaled down so that every cap is reached within a few      *)
(* calls.                                                                  *)
(***************************************************************************)
\* const maxBody = 128 * 1024 (fifo_queue_server.go:26), scaled down
maxBody == 2
\* maxMsgs int = 50000 (fifo_queue_server.go:32), scaled down
maxMsgs == 2
\* maxBytes int64 = 256 << 20 (fifo_queue_server.go:31), scaled down
maxBytes == 3
\* the number of calls made on the queues in one run
MaxCalls == 3

(***************************************************************************)
(* Byte slices.  A Go []byte is either nil or a sequence of bytes; both    *)
(* nil and the empty slice have length 0, and encoding/json tells them     *)
(* apart (null against "").  The nil slice is written as the one-element   *)
(* sequence << -1 >>, which is no sequence of bytes.                       *)
(***************************************************************************)
Nil == << -1 >>

Bytes(x) == IF x = Nil THEN <<>> ELSE x

LenB(x) == Len(Bytes(x))

\* cp := append([]byte(nil), b...): appending nothing to nil leaves nil
CopyOf(b) == IF LenB(b) = 0 THEN Nil ELSE b

RECURSIVE SumLen(_)
SumLen(s) == IF s = <<>> THEN 0 ELSE LenB(Head(s)) + SumLen(Tail(s))

\* the contents of a [][]byte, byte for byte
Contents(s) == [i \in 1..Len(s) |-> Bytes(s[i])]

(***************************************************************************)
(* encoding/json on [][]byte: json.NewEncoder(f).Encode(snap) writes       *)
(* '[' item ',' item ... ']' '\n' where a nil item is null and any other   *)
(* item is its standard padded base64 in double quotes.                    *)
(***************************************************************************)
B64 == << "A","B","C","D","E","F","G","H","I","J","K","L","M","N","O","P",
          "Q","R","S","T","U","V","W","X","Y","Z","a","b","c","d","e","f",
          "g","h","i","j","k","l","m","n","o","p","q","r","s","t","u","v",
          "w","x","y","z","0","1","2","3","4","5","6","7","8","9","+","/" >>

B64Char(n) == B64[n + 1]

IsB64(c) == \E i \in 1..64 : B64[i] = c

B64Val(c) == (CHOOSE i \in 1..64 : B64[i] = c) - 1

RECURSIVE Base64Encode(_)
Base64Encode(bs) ==
    IF bs = <<>> THEN <<>>
    ELSE IF Len(bs) = 1 THEN
        << B64Char(bs[1] \div 4), B64Char((bs[1] % 4) * 16), "=", "=" >>
    ELSE IF Len(bs) = 2 THEN
        << B64Char(bs[1] \div 4),
           B64Char((bs[1] % 4) * 16 + bs[2] \div 16),
           B64Char((bs[2] % 16) * 4), "=" >>
    ELSE
        << B64Char(bs[1] \div 4),
           B64Char((bs[1] % 4) * 16 + bs[2] \div 16),
           B64Char((bs[2] % 16) * 4 + bs[3] \div 64),
           B64Char(bs[3] % 64) >>
        \o Base64Encode(SubSeq(bs, 4, Len(bs)))

\* the result of decoding: [ok |-> FALSE] or [ok |-> TRUE, val |-> bytes]
Bad == [ok |-> FALSE]

RECURSIVE Base64Decode(_)
Base64Decode(cs) ==
    IF cs = <<>> THEN [ok |-> TRUE, val |-> <<>>]
    ELSE IF Len(cs) < 4 \/ ~IsB64(cs[1]) \/ ~IsB64(cs[2]) THEN Bad
    ELSE LET a == B64Val(cs[1])
             b == B64Val(cs[2])
             b1 == a * 4 + b \div 16
         IN  IF cs[3] = "=" THEN
                 IF cs[4] = "=" /\ Len(cs) = 4
                 THEN [ok |-> TRUE, val |-> << b1 >>] ELSE Bad
             ELSE IF ~IsB64(cs[3]) THEN Bad
             ELSE LET c == B64Val(cs[3])
                      b2 == (b % 16) * 16 + c \div 4
                  IN  IF cs[4] = "=" THEN
                          IF Len(cs) = 4
                          THEN [ok |-> TRUE, val |-> << b1, b2 >>] ELSE Bad
                      ELSE IF ~IsB64(cs[4]) THEN Bad
                      ELSE LET rest == Base64Decode(SubSeq(cs, 5, Len(cs)))
                               b3 == (c % 4) * 64 + B64Val(cs[4])
                           IN  IF rest.ok
                               THEN [ok |-> TRUE,
                                     val |-> << b1, b2, b3 >> \o rest.val]
                               ELSE Bad

EncodeItem(x) ==
    IF x = Nil THEN << "n", "u", "l", "l" >>
    ELSE << "\"" >> \o Base64Encode(x) \o << "\"" >>

RECURSIVE EncodeItems(_)
EncodeItems(s) ==
    IF s = <<>> THEN <<>>
    ELSE IF Len(s) = 1 THEN EncodeItem(s[1])
    ELSE EncodeItem(s[1]) \o << "," >> \o EncodeItems(Tail(s))

\* json.NewEncoder(f).Encode(snap), snap a non-nil [][]byte
JsonEncode(snap) == << "[" >> \o EncodeItems(snap) \o << "]", "\n" >>

(***************************************************************************)
(* json.NewDecoder(f).Decode(&d), d a [][]byte: the first JSON value of    *)
(* the stream is read and what follows it is left unread.  null gives a    *)
(* nil slice; an array gives one []byte per element, a string element      *)
(* base64-decoded and a null element nil; anything else is an error.       *)
(***************************************************************************)
IsSpace(c) == c \in {" ", "\n", "\t", "\r"}

RECURSIVE SkipSpace(_)
SkipSpace(cs) ==
    IF cs # <<>> /\ IsSpace(Head(cs)) THEN SkipSpace(Tail(cs)) ELSE cs

StartsWith(cs, w) == Len(cs) >= Len(w) /\ SubSeq(cs, 1, Len(w)) = w

Drop(cs, n) == SubSeq(cs, n + 1, Len(cs))

\* the characters of a string literal up to its closing quote
RECURSIVE StringBody(_)
StringBody(cs) ==
    IF cs = <<>> \/ Head(cs) = "\"" THEN <<>>
    ELSE << Head(cs) >> \o StringBody(Tail(cs))

\* one array element: [ok, val, rest]
DecodeItem(cs) ==
    IF StartsWith(cs, << "n", "u", "l", "l" >>)
    THEN [ok |-> TRUE, val |-> Nil, rest |-> Drop(cs, 4)]
    ELSE IF cs # <<>> /\ Head(cs) = "\"" THEN
        LET body == StringBody(Tail(cs))
            dec == Base64Decode(body)
        IN  IF Len(body) + 2 > Len(cs) \/ ~dec.ok
            THEN [ok |-> FALSE, val |-> Nil, rest |-> <<>>]
            ELSE [ok |-> TRUE, val |-> dec.val, rest |-> Drop(cs, Len(body) + 2)]
    ELSE [ok |-> FALSE, val |-> Nil, rest |-> <<>>]

\* the elements after '[' or ',': the decoded items, or Bad
RECURSIVE DecodeItems(_)
DecodeItems(cs) ==
    LET it == DecodeItem(SkipSpace(cs))
        after == SkipSpace(it.rest)
    IN  IF ~it.ok \/ after = <<>> THEN Bad
        ELSE IF Head(after) = "]" THEN [ok |-> TRUE, val |-> << it.val >>]
        ELSE IF Head(after) = "," THEN
            LET more == DecodeItems(Tail(after))
            IN  IF more.ok THEN [ok |-> TRUE, val |-> << it.val >> \o more.val]
                ELSE Bad
        ELSE Bad

JsonDecode(text) ==
    LET cs == SkipSpace(text)
    IN  IF StartsWith(cs, << "n", "u", "l", "l" >>) THEN [ok |-> TRUE, val |-> <<>>]
        ELSE IF cs = <<>> \/ Head(cs) # "[" THEN Bad
        ELSE LET in == SkipSpace(Tail(cs))
             IN  IF in # <<>> /\ Head(in) = "]" THEN [ok |-> TRUE, val |-> <<>>]
                 ELSE DecodeItems(in)


(***************************************************************************)
(* The program state.                                                      *)
(***************************************************************************)
VARIABLES
    mu,          \* mu[q]: the goroutine holding q.mu, or NoThread
    data,        \* data[q]: q.data, index 1 the next item to pop
    bytes,       \* bytes[q]: q.bytes
    enqueueCnt,  \* the process-wide counters
    dequeueCnt,
    dequeueMiss,
    pc,          \* pc[t]: where goroutine t is
    frame,       \* frame[t]: the receiver, argument and locals of t's call
                 \* (for history, start: the counters as they were when a
                 \* /metrics request arrived)
    ret,         \* ret[t]: what t's last completed call returned
    dir,         \* dir[name]: the inode a file name links to, or NoInode
    disk,        \* disk[i]: the text held by inode i
    fd,          \* fd[t]: the inode of the file t has open, or NoInode
    calls,       \* the number of calls made so far
    limit,       \* the number of calls the run makes
    old,         \* history: old[t] is the queue and the counters as they
                 \* were when t took the lock it holds
    keep,        \* which events the run keeps in log: "none", "all",
                 \* "order" for all of them and the start of every call, or
                 \* "files" for those of persist and load only
    log          \* history: what the calls returned, and what each persist
                 \* copied, in the order it happened

vars == << mu, data, bytes, enqueueCnt, dequeueCnt, dequeueMiss, pc, frame,
           ret, dir, disk, fd, old >>

Threads == {"t1", "t2", "t3"}

NoThread == "none"

Queues == {"q", "q2"}

\* the one destination the calls name, and the temporary beside it
Dest == "snap.json"

\* tmp := p + ".tmp"
TmpOf(p) == p \o ".tmp"

Names == {Dest, TmpOf(Dest)}

NoInode == 0

\* as many inodes as can be alive at once: one per name, one per open file
Inodes == 1..(Cardinality(Names) + Cardinality(Threads))

(***************************************************************************)
(* The payloads the callers send: one of each length up to one more than   *)
(* maxBody, bytes 'A' and 'B' in turn, and a second one-byte payload so    *)
(* that two items of the same length can be told apart.                    *)
(***************************************************************************)
Pattern(n) == [i \in 1..n |-> IF i % 2 = 1 THEN 65 ELSE 66]

Payloads == {Pattern(n) : n \in 0..(maxBody + 1)}

\* the payloads within the size limit, two of them of the same length
Sendable == {b \in Payloads : LenB(b) <= maxBody} \cup {<< 66 >>}

\* the payloads of at most one byte: maxBytes never binds before maxMsgs
SmallPayloads == {b \in Sendable : Len(b) <= 1}

(***************************************************************************)
(* The files a run may find at the destination: none, a file that is not   *)
(* JSON, and a snapshot written by a run with larger caps (the caps are    *)
(* flags: --max-msgs, --max-bytes): one item more than maxMsgs, the first  *)
(* of them longer than maxBody.                                            *)
(***************************************************************************)
OverCap ==
    [i \in 1..(maxMsgs + 1) |-> Pattern(IF i = 1 THEN maxBody + 1 ELSE maxBody)]

InitialFiles == { << "[", "\"", "Q" >>, JsonEncode(OverCap) }

NoFrame == [op |-> "none", q |-> "q", p |-> Dest, b |-> <<>>, m |-> <<>>,
            snap |-> <<>>, d |-> <<>>, total |-> 0, v |-> 0,
            stats |-> <<>>, start |-> <<>>]

NoRet == [op |-> "none", q |-> "q", res |-> "none", b |-> <<>>, n |-> 0]

NoOld == [data |-> <<>>, bytes |-> 0, enq |-> 0, deq |-> 0, miss |-> 0]

\* a process that has just started: the queues empty, the counters zero
Boot ==
    /\ mu = [q \in Queues |-> NoThread]
    /\ data = [q \in Queues |-> <<>>]
    /\ bytes = [q \in Queues |-> 0]
    /\ enqueueCnt = 0
    /\ dequeueCnt = 0
    /\ dequeueMiss = 0
    /\ pc = [t \in Threads |-> "idle"]
    /\ frame = [t \in Threads |-> NoFrame]
    /\ ret = [t \in Threads |-> NoRet]
    /\ fd = [t \in Threads |-> NoInode]
    /\ calls = 0
    /\ old = [t \in Threads |-> NoOld]
    /\ log = <<>>

\* nothing at the destination
NoFiles ==
    /\ dir = [n \in Names |-> NoInode]
    /\ disk = [i \in Inodes |-> <<>>]

\* a file left at the destination by an earlier run
FileLeft ==
    \E text \in InitialFiles :
        /\ dir = [n \in Names |-> IF n = Dest THEN 1 ELSE NoInode]
        /\ disk = [i \in Inodes |-> IF i = 1 THEN text ELSE <<>>]

Init ==
    /\ Boot
    /\ NoFiles \/ FileLeft
    /\ limit = MaxCalls
    /\ keep = "none"

(***************************************************************************)
(* The file system.                                                        *)
(***************************************************************************)
Referenced(dr, f) == {dr[n] : n \in Names} \cup {f[t] : t \in Threads}

\* an inode no name links to and no handle holds is gone
Reclaim(dk, dr, f) ==
    [i \in Inodes |-> IF i \in Referenced(dr, f) THEN dk[i] ELSE <<>>]

FreshInode(dr, f) ==
    CHOOSE i \in Inodes \ Referenced(dr, f) :
        \A j \in Inodes \ Referenced(dr, f) : i <= j

\* a write of text at offset 0 of a file holding cur
Overwrite(cur, text) == text \o Drop(cur, Len(text))

(***************************************************************************)
(* The lock.                                                               *)
(***************************************************************************)
\* q.mu.Lock() by t: blocks while another goroutine holds the mutex
Lock(t, q) ==
    /\ mu[q] = NoThread
    /\ mu' = [mu EXCEPT ![q] = t]
    /\ old' = [old EXCEPT ![t] = [data |-> data[q], bytes |-> bytes[q],
                                  enq |-> enqueueCnt, deq |-> dequeueCnt,
                                  miss |-> dequeueMiss]]

\* q.mu.Unlock()
Unlock(t, q) ==
    /\ mu' = [mu EXCEPT ![q] = NoThread]
    /\ old' = [old EXCEPT ![t] = NoOld]

\* the history gains the event e
Record(e) ==
    /\ log' = IF keep \in {"all", "order"}
                 \/ (keep = "files" /\ e.op \in {"copy", "persist", "load"})
              THEN Append(log, e) ELSE log
    /\ UNCHANGED keep

\* t's call returns r
Return(t, r) ==
    /\ pc' = [pc EXCEPT ![t] = "idle"]
    /\ frame' = [frame EXCEPT ![t] = NoFrame]
    /\ ret' = [ret EXCEPT ![t] = r]
    /\ Record(r)
    /\ UNCHANGED << calls, limit >>

\* a call starts: t is not in a call, and the run has calls left
Enter(t) ==
    /\ pc[t] = "idle"
    /\ calls < limit
    /\ calls' = calls + 1
    /\ UNCHANGED << limit, keep >>

\* the history gains the start of the call whose frame is f
Invoked(f) ==
    log' = IF keep = "order" THEN Append(log, [op |-> "invoke", q |-> f.q,
                                               res |-> f.op, b |-> f.b, n |-> 0])
           ELSE log

\* t starts a call and reaches its first statement; the result of its last
\* call is dropped
Begin(t, where, f) ==
    /\ Enter(t)
    /\ Invoked(f)
    /\ pc' = [pc EXCEPT ![t] = where]
    /\ frame' = [frame EXCEPT ![t] = f]
    /\ ret' = [ret EXCEPT ![t] = NoRet]

\* t moves on inside its call
Local(t, where, f) ==
    /\ pc' = [pc EXCEPT ![t] = where]
    /\ frame' = [frame EXCEPT ![t] = f]
    /\ UNCHANGED << ret, calls, limit, keep, log >>

\* what a call returns: the call, its argument or result b, and n for an
\* integer; the history holds the same records
Result(op, q, res, b, n) == [op |-> op, q |-> q, res |-> res, b |-> b, n |-> n]

Counters == << enqueueCnt, dequeueCnt, dequeueMiss >>

Files == << dir, disk, fd >>


(***************************************************************************)
(* func (q *queue) enqueue(b []byte) error                                 *)
(***************************************************************************)
\* mutant: the size check lets maxBody+1 bytes through
TooLargeOffByOne(b) == LenB(b) > maxBody + 1

\* len(b) > maxBody
TooLarge(b) == LenB(b) > maxBody

\* mutant: the count check admits one item too many
QueueFullOffByOne(q, b) == Len(data[q]) > maxMsgs \/ bytes[q] + LenB(b) > maxBytes

\* len(q.data) >= maxMsgs || q.bytes+int64(len(b)) > maxBytes
QueueFull(q, b) == Len(data[q]) >= maxMsgs \/ bytes[q] + LenB(b) > maxBytes

Enqueue(t, q, b) ==
    /\ Begin(t, "enq_size", [NoFrame EXCEPT !.op = "enqueue", !.q = q, !.b = b])
    /\ UNCHANGED << mu, data, bytes, Counters, Files, old >>

\* the size check, made before the lock is taken
EnqSize(t) ==
    /\ pc[t] = "enq_size"
    /\ IF TooLarge(frame[t].b)
       THEN Return(t, Result("enqueue", frame[t].q, "payload too large", frame[t].b, 0))
       ELSE Local(t, "enq_lock", frame[t])
    /\ UNCHANGED << mu, data, bytes, Counters, Files, old >>

\* mutant: the lock is taken without waiting for its holder
EnqLockNoWait(t) ==
    /\ pc[t] = "enq_lock"
    /\ mu' = [mu EXCEPT ![frame[t].q] = t]
    /\ old' = [old EXCEPT ![t] = [data |-> data[frame[t].q], bytes |-> bytes[frame[t].q],
                                  enq |-> enqueueCnt, deq |-> dequeueCnt,
                                  miss |-> dequeueMiss]]
    /\ Local(t, "enq_check", frame[t])
    /\ UNCHANGED << data, bytes, Counters, Files >>

EnqLock(t) ==
    /\ pc[t] = "enq_lock"
    /\ Lock(t, frame[t].q)
    /\ Local(t, "enq_check", frame[t])
    /\ UNCHANGED << data, bytes, Counters, Files >>

\* mutant: "queue full" is returned with the lock still held
EnqCheckKeepsLock(t) ==
    /\ pc[t] = "enq_check"
    /\ IF QueueFull(frame[t].q, frame[t].b)
       THEN Return(t, Result("enqueue", frame[t].q, "queue full", frame[t].b, 0))
       ELSE Local(t, "enq_append", frame[t])
    /\ UNCHANGED << mu, old, data, bytes, Counters, Files >>

\* the capacity check; on "queue full" the deferred Unlock runs
EnqCheck(t) ==
    /\ pc[t] = "enq_check"
    /\ IF QueueFull(frame[t].q, frame[t].b)
       THEN /\ Return(t, Result("enqueue", frame[t].q, "queue full", frame[t].b, 0))
            /\ Unlock(t, frame[t].q)
       ELSE /\ Local(t, "enq_append", frame[t])
            /\ UNCHANGED << mu, old >>
    /\ UNCHANGED << data, bytes, Counters, Files >>

\* mutant: the new item goes to the head
Prepended(items, cp) == << cp >> \o items

\* append(q.data, cp)
Appended(items, cp) == Append(items, cp)

\* cp := append([]byte(nil), b...); q.data = append(q.data, cp)
EnqAppend(t) ==
    /\ pc[t] = "enq_append"
    /\ data' = [data EXCEPT ![frame[t].q] = Appended(@, CopyOf(frame[t].b))]
    /\ Local(t, "enq_bytes", [frame[t] EXCEPT !.m = CopyOf(frame[t].b)])
    /\ UNCHANGED << mu, bytes, Counters, Files, old >>

\* q.bytes += int64(len(cp))
EnqBytes(t) ==
    /\ pc[t] = "enq_bytes"
    /\ bytes' = [bytes EXCEPT ![frame[t].q] = @ + LenB(frame[t].m)]
    /\ Local(t, "enq_count", frame[t])
    /\ UNCHANGED << mu, data, Counters, Files, old >>

\* atomic.AddUint64(&enqueueCnt, 1)
EnqCount(t) ==
    /\ pc[t] = "enq_count"
    /\ enqueueCnt' = enqueueCnt + 1
    /\ Local(t, "enq_return", frame[t])
    /\ UNCHANGED << mu, data, bytes, dequeueCnt, dequeueMiss, Files, old >>

\* return nil, and the deferred Unlock
EnqReturn(t) ==
    /\ pc[t] = "enq_return"
    /\ Return(t, Result("enqueue", frame[t].q, "nil", frame[t].b, 0))
    /\ Unlock(t, frame[t].q)
    /\ UNCHANGED << data, bytes, Counters, Files >>

EnqueueStep(t) ==
    \/ EnqSize(t)
    \/ EnqLock(t)
    \/ EnqCheck(t)
    \/ EnqAppend(t)
    \/ EnqBytes(t)
    \/ EnqCount(t)
    \/ EnqReturn(t)

(***************************************************************************)
(* func (q *queue) dequeue() ([]byte, bool)                                *)
(***************************************************************************)
Dequeue(t, q) ==
    /\ Begin(t, "deq_lock", [NoFrame EXCEPT !.op = "dequeue", !.q = q])
    /\ UNCHANGED << mu, data, bytes, Counters, Files, old >>

DeqLock(t) ==
    /\ pc[t] = "deq_lock"
    /\ Lock(t, frame[t].q)
    /\ Local(t, "deq_check", frame[t])
    /\ UNCHANGED << data, bytes, Counters, Files >>

\* if len(q.data) == 0
DeqCheck(t) ==
    /\ pc[t] = "deq_check"
    /\ Local(t, IF Len(data[frame[t].q]) = 0 THEN "deq_miss" ELSE "deq_take", frame[t])
    /\ UNCHANGED << mu, data, bytes, Counters, Files, old >>

\* mutant: a miss is counted as a dequeue
DeqMissWrongCounter(t) ==
    /\ pc[t] = "deq_miss"
    /\ dequeueCnt' = dequeueCnt + 1
    /\ Local(t, "deq_return_empty", frame[t])
    /\ UNCHANGED << mu, data, bytes, enqueueCnt, dequeueMiss, Files, old >>

\* atomic.AddUint64(&dequeueMiss, 1)
DeqMiss(t) ==
    /\ pc[t] = "deq_miss"
    /\ dequeueMiss' = dequeueMiss + 1
    /\ Local(t, "deq_return_empty", frame[t])
    /\ UNCHANGED << mu, data, bytes, enqueueCnt, dequeueCnt, Files, old >>

\* return nil, false, and the deferred Unlock
DeqReturnEmpty(t) ==
    /\ pc[t] = "deq_return_empty"
    /\ Return(t, Result("dequeue", frame[t].q, "empty", Nil, 0))
    /\ Unlock(t, frame[t].q)
    /\ UNCHANGED << data, bytes, Counters, Files >>

\* mutant: the item returned is the last one, not the first
Back(items) == items[Len(items)]

\* q.data[0]
Front(items) == items[1]

\* mutant: the slice loses its second item, not its first
RestKeepsHead(items) ==
    IF Len(items) > 1 THEN << items[1] >> \o SubSeq(items, 3, Len(items)) ELSE <<>>

\* mutant: the slice loses its last item, not its first
RestDropsLast(items) == SubSeq(items, 1, Len(items) - 1)

\* q.data[1:]
Rest(items) == SubSeq(items, 2, Len(items))

\* m := q.data[0]; q.data[0] = nil; q.data = q.data[1:]
DeqTake(t) ==
    /\ pc[t] = "deq_take"
    /\ data' = [data EXCEPT ![frame[t].q] = Rest(@)]
    /\ Local(t, "deq_bytes", [frame[t] EXCEPT !.m = Front(data[frame[t].q])])
    /\ UNCHANGED << mu, bytes, Counters, Files, old >>

\* mutant: the byte total is not taken down
DeqBytesSkipped(t) ==
    /\ pc[t] = "deq_bytes"
    /\ Local(t, "deq_count", frame[t])
    /\ UNCHANGED << mu, data, bytes, Counters, Files, old >>

\* q.bytes -= int64(len(m))
DeqBytes(t) ==
    /\ pc[t] = "deq_bytes"
    /\ bytes' = [bytes EXCEPT ![frame[t].q] = @ - LenB(frame[t].m)]
    /\ Local(t, "deq_count", frame[t])
    /\ UNCHANGED << mu, data, Counters, Files, old >>

\* atomic.AddUint64(&dequeueCnt, 1)
DeqCount(t) ==
    /\ pc[t] = "deq_count"
    /\ dequeueCnt' = dequeueCnt + 1
    /\ Local(t, "deq_return", frame[t])
    /\ UNCHANGED << mu, data, bytes, enqueueCnt, dequeueMiss, Files, old >>

\* return m, true, and the deferred Unlock
DeqReturn(t) ==
    /\ pc[t] = "deq_return"
    /\ Return(t, Result("dequeue", frame[t].q, "ok", frame[t].m, 0))
    /\ Unlock(t, frame[t].q)
    /\ UNCHANGED << data, bytes, Counters, Files >>

DequeueStep(t) ==
    \/ DeqLock(t)
    \/ DeqCheck(t)
    \/ DeqMiss(t)
    \/ DeqReturnEmpty(t)
    \/ DeqTake(t)
    \/ DeqBytes(t)
    \/ DeqCount(t)
    \/ DeqReturn(t)

(***************************************************************************)
(* func (q *queue) clear()                                                 *)
(***************************************************************************)
Clear(t, q) ==
    /\ Begin(t, "clear_lock", [NoFrame EXCEPT !.op = "clear", !.q = q])
    /\ UNCHANGED << mu, data, bytes, Counters, Files, old >>

\* mutant: the lock is taken without waiting for its holder
ClearLockNoWait(t) ==
    /\ pc[t] = "clear_lock"
    /\ mu' = [mu EXCEPT ![frame[t].q] = t]
    /\ old' = [old EXCEPT ![t] = [data |-> data[frame[t].q], bytes |-> bytes[frame[t].q],
                                  enq |-> enqueueCnt, deq |-> dequeueCnt,
                                  miss |-> dequeueMiss]]
    /\ Local(t, "clear_data", frame[t])
    /\ UNCHANGED << data, bytes, Counters, Files >>

ClearLock(t) ==
    /\ pc[t] = "clear_lock"
    /\ Lock(t, frame[t].q)
    /\ Local(t, "clear_data", frame[t])
    /\ UNCHANGED << data, bytes, Counters, Files >>

\* for i := range q.data { q.data[i] = nil }; q.data = nil
ClearData(t) ==
    /\ pc[t] = "clear_data"
    /\ data' = [data EXCEPT ![frame[t].q] = <<>>]
    /\ Local(t, "clear_bytes", frame[t])
    /\ UNCHANGED << mu, bytes, Counters, Files, old >>

\* q.bytes = 0
ClearBytes(t) ==
    /\ pc[t] = "clear_bytes"
    /\ bytes' = [bytes EXCEPT ![frame[t].q] = 0]
    /\ Local(t, "clear_unlock", frame[t])
    /\ UNCHANGED << mu, data, Counters, Files, old >>

ClearUnlock(t) ==
    /\ pc[t] = "clear_unlock"
    /\ Unlock(t, frame[t].q)
    /\ Return(t, Result("clear", frame[t].q, "done", Nil, 0))
    /\ UNCHANGED << data, bytes, Counters, Files >>

ClearStep(t) ==
    \/ ClearLock(t)
    \/ ClearData(t)
    \/ ClearBytes(t)
    \/ ClearUnlock(t)

(***************************************************************************)
(* func (q *queue) length() int, func (q *queue) size() int64              *)
(***************************************************************************)
Length(t, q) ==
    /\ Begin(t, "length_lock", [NoFrame EXCEPT !.op = "length", !.q = q])
    /\ UNCHANGED << mu, data, bytes, Counters, Files, old >>

LengthLock(t) ==
    /\ pc[t] = "length_lock"
    /\ Lock(t, frame[t].q)
    /\ Local(t, "length_read", frame[t])
    /\ UNCHANGED << data, bytes, Counters, Files >>

\* l := len(q.data)
LengthRead(t) ==
    /\ pc[t] = "length_read"
    /\ Local(t, "length_unlock", [frame[t] EXCEPT !.v = Len(data[frame[t].q])])
    /\ UNCHANGED << mu, data, bytes, Counters, Files, old >>

LengthUnlock(t) ==
    /\ pc[t] = "length_unlock"
    /\ Unlock(t, frame[t].q)
    /\ Return(t, Result("length", frame[t].q, "done", Nil, frame[t].v))
    /\ UNCHANGED << data, bytes, Counters, Files >>

Size(t, q) ==
    /\ Begin(t, "size_lock", [NoFrame EXCEPT !.op = "size", !.q = q])
    /\ UNCHANGED << mu, data, bytes, Counters, Files, old >>

\* mutant: the lock is taken without waiting for its holder
SizeLockNoWait(t) ==
    /\ pc[t] = "size_lock"
    /\ mu' = [mu EXCEPT ![frame[t].q] = t]
    /\ old' = [old EXCEPT ![t] = [data |-> data[frame[t].q], bytes |-> bytes[frame[t].q],
                                  enq |-> enqueueCnt, deq |-> dequeueCnt,
                                  miss |-> dequeueMiss]]
    /\ Local(t, "size_read", frame[t])
    /\ UNCHANGED << data, bytes, Counters, Files >>

SizeLock(t) ==
    /\ pc[t] = "size_lock"
    /\ Lock(t, frame[t].q)
    /\ Local(t, "size_read", frame[t])
    /\ UNCHANGED << data, bytes, Counters, Files >>

\* s := q.bytes
SizeRead(t) ==
    /\ pc[t] = "size_read"
    /\ Local(t, "size_unlock", [frame[t] EXCEPT !.v = bytes[frame[t].q]])
    /\ UNCHANGED << mu, data, bytes, Counters, Files, old >>

SizeUnlock(t) ==
    /\ pc[t] = "size_unlock"
    /\ Unlock(t, frame[t].q)
    /\ Return(t, Result("size", frame[t].q, "done", Nil, frame[t].v))
    /\ UNCHANGED << data, bytes, Counters, Files >>

ReadStep(t) ==
    \/ LengthLock(t)
    \/ LengthRead(t)
    \/ LengthUnlock(t)
    \/ SizeLock(t)
    \/ SizeRead(t)
    \/ SizeUnlock(t)


(***************************************************************************)
(* func (q *queue) persist(p string) error                                 *)
(***************************************************************************)
Persist(t, q, p) ==
    /\ Begin(t, "persist_lock", [NoFrame EXCEPT !.op = "persist", !.q = q, !.p = p])
    /\ UNCHANGED << mu, data, bytes, Counters, Files, old >>

PersistLock(t) ==
    /\ pc[t] = "persist_lock"
    /\ Lock(t, frame[t].q)
    /\ Local(t, "persist_copy", frame[t])
    /\ UNCHANGED << data, bytes, Counters, Files >>

\* mutant: the copy misses the last item
SnapshotShort(items) == SubSeq(items, 1, Len(items) - 1)

\* snap := make([][]byte, len(q.data)); copy(snap, q.data)
SnapshotOf(items) == items

PersistCopy(t) ==
    /\ pc[t] = "persist_copy"
    /\ pc' = [pc EXCEPT ![t] = "persist_unlock"]
    /\ frame' = [frame EXCEPT ![t].snap = SnapshotOf(data[frame[t].q])]
    /\ Record(Result("copy", frame[t].q, "held", data[frame[t].q], bytes[frame[t].q]))
    /\ UNCHANGED << ret, calls, limit >>
    /\ UNCHANGED << mu, data, bytes, Counters, Files, old >>

\* mutant: the lock is kept for the rest of the call (defer q.mu.Unlock())
PersistUnlockDeferred(t) ==
    /\ pc[t] = "persist_unlock"
    /\ Local(t, "persist_create", frame[t])
    /\ UNCHANGED << mu, old, data, bytes, Counters, Files >>

PersistUnlock(t) ==
    /\ pc[t] = "persist_unlock"
    /\ Unlock(t, frame[t].q)
    /\ Local(t, "persist_create", frame[t])
    /\ UNCHANGED << data, bytes, Counters, Files >>

\* mutant: the file is created at the destination itself, not beside it
PersistCreateInPlace(t) ==
    /\ pc[t] = "persist_create"
    /\ LET i == IF dir[frame[t].p] # NoInode THEN dir[frame[t].p]
                ELSE FreshInode(dir, fd)
       IN  /\ dir' = [dir EXCEPT ![frame[t].p] = i]
           /\ disk' = [disk EXCEPT ![i] = <<>>]
           /\ fd' = [fd EXCEPT ![t] = i]
    /\ Local(t, "persist_encode", frame[t])
    /\ UNCHANGED << mu, data, bytes, Counters, old >>

\* f, err := os.Create(tmp): the file is created, or truncated if it exists
PersistCreate(t) ==
    /\ pc[t] = "persist_create"
    /\ LET tmp == TmpOf(frame[t].p)
           i == IF dir[tmp] # NoInode THEN dir[tmp] ELSE FreshInode(dir, fd)
       IN  /\ dir' = [dir EXCEPT ![tmp] = i]
           /\ disk' = [disk EXCEPT ![i] = <<>>]
           /\ fd' = [fd EXCEPT ![t] = i]
    /\ Local(t, "persist_encode", frame[t])
    /\ UNCHANGED << mu, data, bytes, Counters, old >>

\* os.Create fails (no permission, no space): return err
PersistCreateFail(t) ==
    /\ pc[t] = "persist_create"
    /\ Return(t, Result("persist", frame[t].q, "create failed", Nil, 0))
    /\ UNCHANGED << mu, data, bytes, Counters, Files, old >>

\* what persist writes for the snapshot it holds
PersistText(snap) == JsonEncode(snap)

\* json.NewEncoder(f).Encode(snap): one write of the whole text at offset 0
PersistEncode(t) ==
    /\ pc[t] = "persist_encode"
    /\ disk' = [disk EXCEPT ![fd[t]] = Overwrite(@, PersistText(frame[t].snap))]
    /\ Local(t, "persist_close", frame[t])
    /\ UNCHANGED << mu, data, bytes, Counters, dir, fd, old >>

\* how much of a text of n characters a failed write leaves behind: nothing,
\* half of it, or all but its last character
PartialWrites(n) == {0, n \div 2, n - 1}

\* the write fails part way (disk full): f.Close(); return err
PersistEncodeFail(t) ==
    /\ pc[t] = "persist_encode"
    /\ \E k \in PartialWrites(Len(PersistText(frame[t].snap))) :
         LET f2 == [fd EXCEPT ![t] = NoInode]
             d2 == [disk EXCEPT ![fd[t]] =
                       Overwrite(@, SubSeq(PersistText(frame[t].snap), 1, k))]
         IN  /\ fd' = f2
             /\ disk' = Reclaim(d2, dir, f2)
    /\ Return(t, Result("persist", frame[t].q, "encode failed", Nil, 0))
    /\ UNCHANGED << mu, data, bytes, Counters, dir, old >>

\* err = f.Close()
PersistClose(t) ==
    /\ pc[t] = "persist_close"
    /\ fd' = [fd EXCEPT ![t] = NoInode]
    /\ disk' = Reclaim(disk, dir, fd')
    /\ Local(t, "persist_rename", frame[t])
    /\ UNCHANGED << mu, data, bytes, Counters, dir, old >>

\* f.Close() fails: return err
PersistCloseFail(t) ==
    /\ pc[t] = "persist_close"
    /\ fd' = [fd EXCEPT ![t] = NoInode]
    /\ disk' = Reclaim(disk, dir, fd')
    /\ Return(t, Result("persist", frame[t].q, "close failed", Nil, 0))
    /\ UNCHANGED << mu, data, bytes, Counters, dir, old >>

\* return os.Rename(tmp, p): the name p is switched to tmp's file in one step
PersistRename(t) ==
    /\ pc[t] = "persist_rename"
    /\ dir[TmpOf(frame[t].p)] # NoInode
    /\ dir' = [dir EXCEPT ![frame[t].p] = dir[TmpOf(frame[t].p)],
                          ![TmpOf(frame[t].p)] = NoInode]
    /\ disk' = Reclaim(disk, dir', fd)
    /\ Return(t, Result("persist", frame[t].q, "nil", Nil, 0))
    /\ UNCHANGED << mu, data, bytes, Counters, fd, old >>

\* os.Rename fails (tmp is gone, or an I/O error): return err
PersistRenameFail(t) ==
    /\ pc[t] = "persist_rename"
    /\ Return(t, Result("persist", frame[t].q, "rename failed", Nil, 0))
    /\ UNCHANGED << mu, data, bytes, Counters, Files, old >>

PersistStep(t) ==
    \/ PersistLock(t)
    \/ PersistCopy(t)
    \/ PersistUnlock(t)
    \/ PersistCreate(t)
    \/ PersistCreateFail(t)
    \/ PersistEncode(t)
    \/ PersistEncodeFail(t)
    \/ PersistClose(t)
    \/ PersistCloseFail(t)
    \/ PersistRename(t)
    \/ PersistRenameFail(t)

(***************************************************************************)
(* func (q *queue) load(p string) error                                    *)
(***************************************************************************)
Load(t, q, p) ==
    /\ Begin(t, "load_open", [NoFrame EXCEPT !.op = "load", !.q = q, !.p = p])
    /\ UNCHANGED << mu, data, bytes, Counters, Files, old >>

\* f, err := os.Open(p)
LoadOpen(t) ==
    /\ pc[t] = "load_open"
    /\ dir[frame[t].p] # NoInode
    /\ fd' = [fd EXCEPT ![t] = dir[frame[t].p]]
    /\ Local(t, "load_decode", frame[t])
    /\ UNCHANGED << mu, data, bytes, Counters, dir, disk, old >>

\* os.Open fails (no such file, no permission): return err
LoadOpenFail(t) ==
    /\ pc[t] = "load_open"
    /\ Return(t, Result("load", frame[t].q, "open failed", Nil, 0))
    /\ UNCHANGED << mu, data, bytes, Counters, Files, old >>

\* json.NewDecoder(f).Decode(&d) of the text the open file holds
LoadDecoded(text) == JsonDecode(text)

LoadDecode(t) ==
    /\ pc[t] = "load_decode"
    /\ LoadDecoded(disk[fd[t]]).ok
    /\ Local(t, "load_close", [frame[t] EXCEPT !.d = LoadDecoded(disk[fd[t]]).val])
    /\ UNCHANGED << mu, data, bytes, Counters, Files, old >>

\* mutant: the decoder has written into q.data before it fails
LoadDecodeFailDirty(t) ==
    /\ pc[t] = "load_decode"
    /\ fd' = [fd EXCEPT ![t] = NoInode]
    /\ disk' = Reclaim(disk, dir, fd')
    /\ data' = [data EXCEPT ![frame[t].q] = <<>>]
    /\ Return(t, Result("load", frame[t].q,
                        IF LoadDecoded(disk[fd[t]]).ok THEN "read failed"
                        ELSE "decode failed", Nil, 0))
    /\ UNCHANGED << mu, bytes, Counters, dir, old >>

\* Decode fails (malformed text, or a read error): f.Close(); return err
LoadDecodeFail(t) ==
    /\ pc[t] = "load_decode"
    /\ fd' = [fd EXCEPT ![t] = NoInode]
    /\ disk' = Reclaim(disk, dir, fd')
    /\ Return(t, Result("load", frame[t].q,
                        IF LoadDecoded(disk[fd[t]]).ok THEN "read failed"
                        ELSE "decode failed", Nil, 0))
    /\ UNCHANGED << mu, data, bytes, Counters, dir, old >>

\* err = f.Close()
LoadClose(t) ==
    /\ pc[t] = "load_close"
    /\ fd' = [fd EXCEPT ![t] = NoInode]
    /\ disk' = Reclaim(disk, dir, fd')
    /\ Local(t, "load_total", frame[t])
    /\ UNCHANGED << mu, data, bytes, Counters, dir, old >>

\* f.Close() fails: return err
LoadCloseFail(t) ==
    /\ pc[t] = "load_close"
    /\ fd' = [fd EXCEPT ![t] = NoInode]
    /\ disk' = Reclaim(disk, dir, fd')
    /\ Return(t, Result("load", frame[t].q, "close failed", Nil, 0))
    /\ UNCHANGED << mu, data, bytes, Counters, dir, old >>

\* var total int64; for _, b := range d { total += int64(len(b)) }
TotalOf(d) == SumLen(d)

LoadTotal(t) ==
    /\ pc[t] = "load_total"
    /\ Local(t, "load_lock", [frame[t] EXCEPT !.total = TotalOf(frame[t].d)])
    /\ UNCHANGED << mu, data, bytes, Counters, Files, old >>

LoadLock(t) ==
    /\ pc[t] = "load_lock"
    /\ Lock(t, frame[t].q)
    /\ Local(t, "load_data", frame[t])
    /\ UNCHANGED << data, bytes, Counters, Files >>

\* mutant: the decoded items are added to the items held
LoadDataMerged(t) ==
    /\ pc[t] = "load_data"
    /\ data' = [data EXCEPT ![frame[t].q] = @ \o frame[t].d]
    /\ Local(t, "load_bytes", frame[t])
    /\ UNCHANGED << mu, bytes, Counters, Files, old >>

\* q.data = d
LoadData(t) ==
    /\ pc[t] = "load_data"
    /\ data' = [data EXCEPT ![frame[t].q] = frame[t].d]
    /\ Local(t, "load_bytes", frame[t])
    /\ UNCHANGED << mu, bytes, Counters, Files, old >>

\* q.bytes = total
LoadBytes(t) ==
    /\ pc[t] = "load_bytes"
    /\ bytes' = [bytes EXCEPT ![frame[t].q] = frame[t].total]
    /\ Local(t, "load_unlock", frame[t])
    /\ UNCHANGED << mu, data, Counters, Files, old >>

\* q.mu.Unlock(); return nil
LoadUnlock(t) ==
    /\ pc[t] = "load_unlock"
    /\ Unlock(t, frame[t].q)
    /\ Return(t, Result("load", frame[t].q, "nil", Nil, 0))
    /\ UNCHANGED << data, bytes, Counters, Files >>

LoadStep(t) ==
    \/ LoadOpen(t)
    \/ LoadOpenFail(t)
    \/ LoadDecode(t)
    \/ LoadDecodeFail(t)
    \/ LoadClose(t)
    \/ LoadCloseFail(t)
    \/ LoadTotal(t)
    \/ LoadLock(t)
    \/ LoadData(t)
    \/ LoadBytes(t)
    \/ LoadUnlock(t)

(***************************************************************************)
(* The server: its one queue q (main: q := &queue{}), and goroutines that  *)
(* call its methods in any interleaving.                                   *)
(***************************************************************************)
Workers == {"t1", "t2"}

Call(t) ==
    \/ \E b \in Payloads : Enqueue(t, "q", b)
    \/ Dequeue(t, "q")
    \/ Clear(t, "q")
    \/ Length(t, "q")
    \/ Size(t, "q")
    \/ Persist(t, "q", Dest)
    \/ Load(t, "q", Dest)

Step(t) ==
    \/ EnqueueStep(t)
    \/ DequeueStep(t)
    \/ ClearStep(t)
    \/ ReadStep(t)
    \/ PersistStep(t)
    \/ LoadStep(t)

Next == \E t \in Workers : Call(t) \/ Step(t)

Spec == Init /\ [][Next]_vars

(***************************************************************************)
(* One caller on a fresh queue (TestEnqueueDequeue, TestQueueFull): it     *)
(* enqueues, then it dequeues; once it has called dequeue it enqueues no   *)
(* more.  The history is kept.                                             *)
(***************************************************************************)
IsDequeue(e) == e.op = "dequeue"

IsAccepted(e) == e.op = "enqueue" /\ e.res = "nil"

IsFull(e) == e.op = "enqueue" /\ e.res = "queue full"

\* enough calls to fill the queue, be refused once, and drain it past empty
FifoCalls == 2 * maxMsgs + 2

InitFifo ==
    /\ Boot
    /\ NoFiles
    /\ limit = FifoCalls
    /\ keep = "all"

NextFifo ==
    \/ /\ SelectSeq(log, IsDequeue) = <<>>
       /\ \E b \in Sendable \cup Payloads : Enqueue("t1", "q", b)
    \/ Dequeue("t1", "q")
    \/ EnqueueStep("t1")
    \/ DequeueStep("t1")

SpecFifo == InitFifo /\ [][NextFifo]_vars

(***************************************************************************)
(* Concurrent producers on a fresh queue (TestQueueFull, many callers):    *)
(* more enqueue calls than maxMsgs, of items so small that maxBytes does   *)
(* not bind, and no other call.  The history is kept.                      *)
(***************************************************************************)
CapCalls == maxMsgs + 2

InitCap ==
    /\ Boot
    /\ NoFiles
    /\ limit = CapCalls
    /\ keep = "all"

NextCap ==
    \E t \in Threads :
        \/ \E b \in SmallPayloads : Enqueue(t, "q", b)
        \/ EnqueueStep(t)

SpecCap == InitCap /\ [][NextCap]_vars

(***************************************************************************)
(* Snapshot and restore (TestPersistAndLoad): one goroutine persists q and *)
(* then loads the file into a second queue q2, while another goroutine     *)
(* enqueues, dequeues and clears on q.  The history of the file calls is   *)
(* kept.                                                                   *)
(***************************************************************************)
RoundTripCalls == 4

InitRoundTrip ==
    /\ Boot
    /\ NoFiles \/ FileLeft
    /\ limit = RoundTripCalls
    /\ keep = "files"

NextRoundTrip ==
    \/ \E b \in Sendable : Enqueue("t1", "q", b)
    \/ Dequeue("t1", "q")
    \/ Clear("t1", "q")
    \/ EnqueueStep("t1")
    \/ DequeueStep("t1")
    \/ ClearStep("t1")
    \/ /\ log = <<>>
       /\ Persist("t2", "q", Dest)
    \/ /\ log # <<>>
       /\ log[Len(log)].op = "persist"
       /\ Load("t2", "q2", Dest)
    \/ PersistStep("t2")
    \/ LoadStep("t2")

SpecRoundTrip == InitRoundTrip /\ [][NextRoundTrip]_vars


(***************************************************************************)
(* Snapshots one after the other (POST /persist called again and again,    *)
(* each call ending before the next starts): one goroutine persists q to   *)
(* the destination while another enqueues items of at most one byte,       *)
(* dequeues and clears on q.  The destination may hold a file of an        *)
(* earlier run.  The history of the file calls is kept.                    *)
(***************************************************************************)
PersistCalls == MaxCalls + 1

InitPersist ==
    /\ Boot
    /\ NoFiles \/ FileLeft
    /\ limit = PersistCalls
    /\ keep = "files"

NextPersist ==
    \/ \E b \in SmallPayloads : Enqueue("t1", "q", b)
    \/ Dequeue("t1", "q")
    \/ Clear("t1", "q")
    \/ EnqueueStep("t1")
    \/ DequeueStep("t1")
    \/ ClearStep("t1")
    \/ Persist("t2", "q", Dest)
    \/ PersistStep("t2")

SpecPersist == InitPersist /\ [][NextPersist]_vars

(***************************************************************************)
(* Producers and consumers on a fresh queue (TestConcurrentSafety): the    *)
(* producers make DrainTotal enqueue calls between them, of items of at    *)
(* most one byte, so that both caps hold them all; every consumer calls    *)
(* dequeue in a loop and leaves it when a dequeue found the queue empty    *)
(* and dequeueCnt has reached DrainTotal.  A goroutine is a producer or a  *)
(* consumer by its first call.  The history is kept.                       *)
(***************************************************************************)
\* const total: the number of items the producers send
DrainTotal == maxMsgs

\* the calls of a run: the enqueues, as many dequeues, one miss for each of
\* two consumers
DrainCalls == 2 * DrainTotal + 2

\* the enqueue calls made so far, returned or not
EnqueuesBegun ==
    Len(SelectSeq(log, LAMBDA e : e.op = "enqueue"))
    + Cardinality({t \in Threads : frame[t].op = "enqueue"})

\* for { _, ok := q.dequeue(); if !ok && atomic.LoadUint64(&dequeueCnt) >= total { return } }
ConsumerLeaves(t) == ret[t].res = "empty" /\ dequeueCnt >= DrainTotal

InitDrain ==
    /\ Boot
    /\ NoFiles
    /\ limit = DrainCalls
    /\ keep = "all"

\* a producer's next enqueue
Produce(t) ==
    /\ ret[t].op \in {"none", "enqueue"}
    /\ EnqueuesBegun < DrainTotal
    /\ \E b \in SmallPayloads : Enqueue(t, "q", b)

\* a consumer's next turn of the loop
Consume(t) ==
    /\ ret[t].op \in {"none", "dequeue"}
    /\ ~ConsumerLeaves(t)
    /\ Dequeue(t, "q")

\* a consumer returns from its loop
ConsumerExit(t) ==
    /\ pc[t] = "idle"
    /\ ret[t].op = "dequeue"
    /\ ConsumerLeaves(t)
    /\ pc' = [pc EXCEPT ![t] = "done"]
    /\ UNCHANGED << mu, data, bytes, Counters, frame, ret, Files, old >>
    /\ UNCHANGED << calls, limit, keep, log >>

NextDrain ==
    \E t \in Threads :
        \/ Produce(t)
        \/ Consume(t)
        \/ ConsumerExit(t)
        \/ EnqueueStep(t)
        \/ DequeueStep(t)

SpecDrain == InitDrain /\ [][NextDrain]_vars

(***************************************************************************)
(* Callers that enqueue and dequeue in any mix on a fresh queue.  Every    *)
(* enqueue sends a payload no earlier call has sent, the next of           *)
(* OrderTags, so that an item returned by dequeue names the call that sent *)
(* it.  The history keeps the start and the return of every call.          *)
(***************************************************************************)
OrderCalls == MaxCalls + 1

OrderTags == << << 65 >>, << 66 >>, << 65, 66 >>, <<>> >>

\* the enqueue calls started so far
Sent == {i \in 1..Len(log) : log[i].op = "invoke" /\ log[i].res = "enqueue"}

InitOrder ==
    /\ Boot
    /\ NoFiles
    /\ limit = OrderCalls
    /\ keep = "order"

NextOrder ==
    \E t \in Threads :
        \/ /\ Cardinality(Sent) < Len(OrderTags)
           /\ Enqueue(t, "q", OrderTags[Cardinality(Sent) + 1])
        \/ Dequeue(t, "q")
        \/ EnqueueStep(t)
        \/ DequeueStep(t)

SpecOrder == InitOrder /\ [][NextOrder]_vars

(***************************************************************************)
(* The counters (GET /metrics): goroutines enqueue, dequeue, clear and     *)
(* load on the server's queue in any interleaving; the bodies sent are one *)
(* of a single byte and one longer than maxBody.  The destination holds a  *)
(* file of an earlier run.  The history is kept.                           *)
(***************************************************************************)
CountCalls == MaxCalls + 1

CountPayloads == {Pattern(1), Pattern(maxBody + 1)}

InitCount ==
    /\ Boot
    /\ FileLeft
    /\ limit = CountCalls
    /\ keep = "all"

NextCount ==
    \E t \in Workers :
        \/ \E b \in CountPayloads : Enqueue(t, "q", b)
        \/ Dequeue(t, "q")
        \/ Clear(t, "q")
        \/ Load(t, "q", Dest)
        \/ EnqueueStep(t)
        \/ DequeueStep(t)
        \/ ClearStep(t)
        \/ LoadStep(t)

SpecCount == InitCount /\ [][NextCount]_vars

(***************************************************************************)
(* mux.HandleFunc("/enqueue", ...): the handler reads at most maxBody + 1  *)
(* bytes of the request body, answers 400 when the read fails, 413 when    *)
(* more than maxBody bytes were read, and otherwise calls q.enqueue and    *)
(* answers 429 for an error and 202 for nil.  frame[t].b is the body the   *)
(* client sends and frame[t].m what the handler has read of it;            *)
(* ret[t].n is the status of the response.                                 *)
(***************************************************************************)
\* the bodies the clients send: the payloads, and one of maxBody + 2 bytes
Bodies == Payloads \cup {Pattern(maxBody + 2)}

\* mutant: the reader is limited to maxBody bytes
LimitReadShort(body) ==
    SubSeq(body, 1, IF Len(body) < maxBody THEN Len(body) ELSE maxBody)

\* io.ReadAll(io.LimitReader(r.Body, maxBody+1))
LimitRead(body) ==
    SubSeq(body, 1, IF Len(body) < maxBody + 1 THEN Len(body) ELSE maxBody + 1)

\* the response of the handler to the request with this body
Response(status, body) == Result("POST /enqueue", "q", "sent", body, status)

\* t has its answer from q.enqueue and has not yet written the response
Replying(t) == pc[t] = "idle" /\ ret[t].op = "enqueue"

\* a request arrives and the handler starts in goroutine t
PostEnqueue(t, body) ==
    /\ ~Replying(t)
    /\ Begin(t, "h_read", [NoFrame EXCEPT !.op = "POST /enqueue", !.b = body])
    /\ UNCHANGED << mu, data, bytes, Counters, Files, old >>

\* body, err := io.ReadAll(io.LimitReader(r.Body, maxBody+1)), err == nil
HandlerRead(t) ==
    /\ pc[t] = "h_read"
    /\ Local(t, "h_size", [frame[t] EXCEPT !.m = LimitRead(frame[t].b)])
    /\ UNCHANGED << mu, data, bytes, Counters, Files, old >>

\* the read fails (the client stalls or goes away): 400
HandlerReadFail(t) ==
    /\ pc[t] = "h_read"
    /\ Return(t, Response(400, frame[t].b))
    /\ UNCHANGED << mu, data, bytes, Counters, Files, old >>

\* if len(body) > maxBody: 413; otherwise q.enqueue(body) is entered
HandlerSize(t) ==
    /\ pc[t] = "h_size"
    /\ IF Len(frame[t].m) > maxBody
       THEN Return(t, Response(413, frame[t].b))
       ELSE Local(t, "enq_size", [NoFrame EXCEPT !.op = "enqueue", !.q = "q",
                                                 !.b = frame[t].m])
    /\ UNCHANGED << mu, data, bytes, Counters, Files, old >>

\* q.enqueue has returned: 429 for an error, 202 for nil
HandlerReply(t) ==
    /\ Replying(t)
    /\ ret' = [ret EXCEPT ![t] = Response(IF ret[t].res = "nil" THEN 202 ELSE 429,
                                          ret[t].b)]
    /\ Record(ret'[t])
    /\ UNCHANGED << mu, data, bytes, Counters, Files, old >>
    /\ UNCHANGED << pc, frame, calls, limit >>

HandlerStep(t) ==
    \/ HandlerRead(t)
    \/ HandlerReadFail(t)
    \/ HandlerSize(t)
    \/ HandlerReply(t)

\* enough requests to fill the queue and be refused
HttpCalls == MaxCalls + 1

InitHttp ==
    /\ Boot
    /\ NoFiles
    /\ limit = HttpCalls
    /\ keep = "none"

NextHttp ==
    \E t \in Workers :
        \/ \E body \in Bodies : PostEnqueue(t, body)
        \/ HandlerStep(t)
        \/ EnqueueStep(t)

SpecHttp == InitHttp /\ [][NextHttp]_vars

(***************************************************************************)
(* Snapshots that overlap (two POST /persist requests naming the same      *)
(* file): two goroutines persist q to the destination, enqueue items of at *)
(* most one byte and dequeue, in any interleaving.  Both persists use the  *)
(* temporary p + ".tmp".  The history of the file calls is kept.           *)
(***************************************************************************)
InitOverlap ==
    /\ Boot
    /\ NoFiles \/ FileLeft
    /\ limit = MaxCalls
    /\ keep = "files"

NextOverlap ==
    \E t \in Workers :
        \/ \E b \in SmallPayloads : Enqueue(t, "q", b)
        \/ Dequeue(t, "q")
        \/ Persist(t, "q", Dest)
        \/ EnqueueStep(t)
        \/ DequeueStep(t)
        \/ PersistStep(t)

SpecOverlap == InitOverlap /\ [][NextOverlap]_vars

(***************************************************************************)
(* The /metrics handler (main): the struct literal reads the three         *)
(* counters with atomic.LoadUint64 and then calls q.length() and q.size(), *)
(* in that order; json.NewEncoder(w).Encode(m) writes what was read.  The  *)
(* other fields (uptime, open files, goroutines) are left out.  The calls  *)
(* of length() and size() are written out in place, so that the handler    *)
(* keeps what it has read so far: stats holds enqueues, dequeues_ok,       *)
(* dequeues_empty, queue_length and queue_bytes in this order.             *)
(***************************************************************************)
\* a request arrives and the handler starts in goroutine t
GetMetrics(t) ==
    /\ Begin(t, "m_enq", [NoFrame EXCEPT !.op = "GET /metrics", !.q = "q",
                                         !.start = Counters])
    /\ UNCHANGED << mu, data, bytes, Counters, Files, old >>

\* atomic.LoadUint64(&enqueueCnt)
MetricsEnqueues(t) ==
    /\ pc[t] = "m_enq"
    /\ Local(t, "m_deq", [frame[t] EXCEPT !.stats = Append(@, enqueueCnt)])
    /\ UNCHANGED << mu, data, bytes, Counters, Files, old >>

\* mutant: dequeues_ok is read from the counter of misses
MetricsDequeuesWrongCounter(t) ==
    /\ pc[t] = "m_deq"
    /\ Local(t, "m_miss", [frame[t] EXCEPT !.stats = Append(@, dequeueMiss)])
    /\ UNCHANGED << mu, data, bytes, Counters, Files, old >>

\* atomic.LoadUint64(&dequeueCnt)
MetricsDequeues(t) ==
    /\ pc[t] = "m_deq"
    /\ Local(t, "m_miss", [frame[t] EXCEPT !.stats = Append(@, dequeueCnt)])
    /\ UNCHANGED << mu, data, bytes, Counters, Files, old >>

\* atomic.LoadUint64(&dequeueMiss)
MetricsDequeueMiss(t) ==
    /\ pc[t] = "m_miss"
    /\ Local(t, "m_length_lock", [frame[t] EXCEPT !.stats = Append(@, dequeueMiss)])
    /\ UNCHANGED << mu, data, bytes, Counters, Files, old >>

\* q.length(): q.mu.Lock()
MetricsLengthLock(t) ==
    /\ pc[t] = "m_length_lock"
    /\ Lock(t, frame[t].q)
    /\ Local(t, "m_length_read", frame[t])
    /\ UNCHANGED << data, bytes, Counters, Files >>

\* q.length(): l := len(q.data)
MetricsLengthRead(t) ==
    /\ pc[t] = "m_length_read"
    /\ Local(t, "m_length_unlock", [frame[t] EXCEPT !.v = Len(data[frame[t].q])])
    /\ UNCHANGED << mu, data, bytes, Counters, Files, old >>

\* q.length(): q.mu.Unlock(); return l
MetricsLengthUnlock(t) ==
    /\ pc[t] = "m_length_unlock"
    /\ Unlock(t, frame[t].q)
    /\ Local(t, "m_size_lock", [frame[t] EXCEPT !.stats = Append(@, frame[t].v)])
    /\ UNCHANGED << data, bytes, Counters, Files >>

\* q.size(): q.mu.Lock()
MetricsSizeLock(t) ==
    /\ pc[t] = "m_size_lock"
    /\ Lock(t, frame[t].q)
    /\ Local(t, "m_size_read", frame[t])
    /\ UNCHANGED << data, bytes, Counters, Files >>

\* q.size(): s := q.bytes
MetricsSizeRead(t) ==
    /\ pc[t] = "m_size_read"
    /\ Local(t, "m_size_unlock", [frame[t] EXCEPT !.v = bytes[frame[t].q]])
    /\ UNCHANGED << mu, data, bytes, Counters, Files, old >>

\* q.size(): q.mu.Unlock(); return s
MetricsSizeUnlock(t) ==
    /\ pc[t] = "m_size_unlock"
    /\ Unlock(t, frame[t].q)
    /\ Local(t, "m_reply", [frame[t] EXCEPT !.stats = Append(@, frame[t].v)])
    /\ UNCHANGED << data, bytes, Counters, Files >>

\* json.NewEncoder(w).Encode(m)
MetricsReply(t) ==
    /\ pc[t] = "m_reply"
    /\ Return(t, Result("GET /metrics", frame[t].q, "json", frame[t].stats, 200))
    /\ UNCHANGED << mu, data, bytes, Counters, Files, old >>

MetricsStep(t) ==
    \/ MetricsEnqueues(t)
    \/ MetricsDequeues(t)
    \/ MetricsDequeueMiss(t)
    \/ MetricsLengthLock(t)
    \/ MetricsLengthRead(t)
    \/ MetricsLengthUnlock(t)
    \/ MetricsSizeLock(t)
    \/ MetricsSizeRead(t)
    \/ MetricsSizeUnlock(t)
    \/ MetricsReply(t)

(***************************************************************************)
(* Telemetry read while the queue is in use: one goroutine enqueues,       *)
(* dequeues and clears, and a monitor asks for the metrics again and       *)
(* again.  The history keeps the start and the return of every call.       *)
(***************************************************************************)
StatsCalls == MaxCalls

InitStats ==
    /\ Boot
    /\ NoFiles
    /\ limit = StatsCalls
    /\ keep = "order"

NextStats ==
    \/ \E b \in SmallPayloads : Enqueue("t1", "q", b)
    \/ Dequeue("t1", "q")
    \/ Clear("t1", "q")
    \/ EnqueueStep("t1")
    \/ DequeueStep("t1")
    \/ ClearStep("t1")
    \/ GetMetrics("t2")
    \/ MetricsStep("t2")

SpecStats == InitStats /\ [][NextStats]_vars

(***************************************************************************)
(* Fair scheduling.  The goroutines are scheduled fairly and sync.Mutex    *)
(* hands the lock to a goroutine that keeps waiting for it (starvation     *)
(* mode), so a call that can again and again take a step takes one.  Two   *)
(* goroutines make LiveCalls calls between them; the payloads are of       *)
(* maxBody bytes, two of which exceed maxBytes, and of one byte more; the  *)
(* destination holds nothing or a file that is not JSON.                   *)
(***************************************************************************)
\* the positions at which a call reads or writes q.data or q.bytes: the
\* bodies of enqueue, dequeue, clear, length and size, the copy of persist
\* and the replacement of load
Critical ==
    {"enq_check", "enq_append", "enq_bytes", "enq_count", "enq_return",
     "deq_check", "deq_miss", "deq_return_empty", "deq_take", "deq_bytes",
     "deq_count", "deq_return",
     "clear_data", "clear_bytes", "clear_unlock",
     "length_read", "length_unlock", "size_read", "size_unlock",
     "m_length_read", "m_length_unlock", "m_size_read", "m_size_unlock",
     "persist_copy", "persist_unlock",
     "load_data", "load_bytes", "load_unlock"}

\* the positions at which a call waits for q.mu
Waiting ==
    {"enq_lock", "deq_lock", "clear_lock", "length_lock", "size_lock",
     "m_length_lock", "m_size_lock", "persist_lock", "load_lock"}

\* one call less than the other runs: the two calls of a run overlap in
\* every way, and every return path of every method is taken
LiveCalls == MaxCalls - 1

LivePayloads == {Pattern(maxBody), Pattern(maxBody + 1)}

InitLive ==
    /\ Boot
    /\ \/ NoFiles
       \/ \E text \in InitialFiles :
              /\ ~JsonDecode(text).ok
              /\ dir = [n \in Names |-> IF n = Dest THEN 1 ELSE NoInode]
              /\ disk = [i \in Inodes |-> IF i = 1 THEN text ELSE <<>>]
    /\ limit = LiveCalls
    /\ keep = "none"

NextLive ==
    \E t \in Workers :
        \/ \E b \in LivePayloads : Enqueue(t, "q", b)
        \/ Dequeue(t, "q")
        \/ Clear(t, "q")
        \/ Length(t, "q")
        \/ Size(t, "q")
        \/ Persist(t, "q", Dest)
        \/ Load(t, "q", Dest)
        \/ Step(t)

\* t is in a call and is not waiting for a lock another goroutine holds:
\* some step of t's call can be taken
Runnable(t) ==
    /\ pc[t] # "idle"
    /\ pc[t] \in Waiting => mu[frame[t].q] = NoThread

\* t takes a step of its call
Advances(t) == pc[t] # "idle" /\ pc'[t] # pc[t]

\* strong fairness of the steps of t's call, SF_pc(Step(t)): t is in the end
\* never runnable, or it advances again and again
Fair(t) == <>[](~Runnable(t)) \/ []<><<Advances(t)>>_pc

SpecLive ==
    /\ InitLive
    /\ [][NextLive]_vars
    /\ \A t \in Workers : Fair(t)

(***************************************************************************)
(* Properties of one caller (SpecFifo), of concurrent producers (SpecCap)  *)
(* and of snapshot and restore (SpecRoundTrip).                            *)
(***************************************************************************)
\* the enqueues accepted and the dequeues made so far, in call order
AcceptedSoFar == SelectSeq(log, IsAccepted)

DequeuedSoFar == SelectSeq(log, IsDequeue)

\* C1: after accepted enqueues E1..En on a fresh queue with no dequeue, clear
\* or load in between, the i-th dequeue returns Ei byte for byte, for i up to
\* n, and every later dequeue returns Empty
C1_FifoOrder ==
    \A i \in 1..Len(DequeuedSoFar) :
        IF i <= Len(AcceptedSoFar)
        THEN /\ DequeuedSoFar[i].res = "ok"
             /\ Bytes(DequeuedSoFar[i].b) = Bytes(AcceptedSoFar[i].b)
        ELSE DequeuedSoFar[i].res = "empty"

\* two different payloads were accepted, both came back, and one more dequeue
\* was made
C1_Witness ==
    /\ Len(AcceptedSoFar) = 2
    /\ AcceptedSoFar[1].b # AcceptedSoFar[2].b
    /\ Len(DequeuedSoFar) = 3
    /\ DequeuedSoFar[3].res = "empty"

\* every goroutine is between calls
Quiet == \A t \in Threads : pc[t] = "idle"

\* C7: with maxMsgs = k, a fresh queue, only enqueues of items within the size
\* limit and a byte cap that does not bind, never more than k calls succeed,
\* none is refused while a slot is free, and once all N > k calls have
\* returned exactly k have succeeded and exactly N - k have returned
\* "queue full"
C7_ExactlyMaxMsgsAdmitted ==
    /\ Len(AcceptedSoFar) <= maxMsgs
    /\ Len(data["q"]) <= maxMsgs
    /\ Len(SelectSeq(log, IsFull)) > 0 => Len(data["q"]) = maxMsgs
    /\ (Quiet /\ calls = limit) =>
          /\ limit > maxMsgs
          /\ Len(AcceptedSoFar) = maxMsgs
          /\ Len(SelectSeq(log, IsFull)) = limit - maxMsgs
          /\ Len(log) = limit

\* one slot is left, one caller is checking the caps under the lock and two
\* more are waiting for the lock
C7_Witness ==
    \E t, u, w \in Threads :
        /\ t # u /\ u # w /\ t # w
        /\ Len(data["q"]) = maxMsgs - 1
        /\ pc[t] = "enq_check"
        /\ pc[u] = "enq_lock"
        /\ pc[w] = "enq_lock"

IsCopy(e) == e.op = "copy"

IsPersisted(e) == e.op = "persist" /\ e.res = "nil"

\* what the last persist copied under the lock: q.data and q.bytes then
LastCopy == SelectSeq(log, IsCopy)[Len(SelectSeq(log, IsCopy))]

\* the last event of the history is a successful load that follows a
\* successful persist, the last file call before it
LoadedAfterPersist ==
    /\ Len(log) >= 3
    /\ log[Len(log)].op = "load" /\ log[Len(log)].res = "nil"
    /\ IsPersisted(log[Len(log) - 1])

\* C10: when persist(p) on q has succeeded and load(p) on q2 then succeeds,
\* q2 holds the items q held when persist copied them, in the same order, and
\* q2's byte total is q's byte total of that instant, whatever enqueue,
\* dequeue and clear did to q during the persist
C10_RoundTrip ==
    LoadedAfterPersist =>
        /\ Contents(data["q2"]) = Contents(LastCopy.b)
        /\ bytes["q2"] = LastCopy.n
        /\ bytes["q2"] = SumLen(data["q2"])

\* a snapshot that holds an item was loaded into q2 over a file left by an
\* earlier run, and q no longer holds what the persist copied
C10_Witness ==
    /\ LoadedAfterPersist
    /\ Len(data["q2"]) > 0
    /\ bytes["q2"] > 0
    /\ data["q"] # data["q2"]
    /\ Len(data["q"]) > 0


(***************************************************************************)
(* Properties of the server (specification Spec).                          *)
(***************************************************************************)
\* t takes a step
Moves(t) == pc'[t] # pc[t]

\* t's call returns in this step
Returns(t) == pc[t] # "idle" /\ pc'[t] = "idle"

\* C2: in every reachable state the number of items held is at most maxMsgs
C2_LengthWithinMaxMsgs == \A q \in Queues : Len(data[q]) <= maxMsgs

\* C3: in every reachable state the byte total of the queue is at most maxBytes
C3_BytesWithinMaxBytes == \A q \in Queues : bytes[q] <= maxBytes

\* C4: whenever the lock of a queue is free, q.bytes is the sum of the lengths
\* of the items in q.data, and the value size() has read is that sum
C4_ByteAccounting ==
    /\ \A q \in Queues : mu[q] = NoThread => bytes[q] = SumLen(data[q])
    /\ \A t \in Threads :
         pc[t] = "size_unlock" => frame[t].v = SumLen(data[frame[t].q])

\* size() has returned a non-zero total on a queue that a load, an enqueue or
\* a dequeue has changed, and the lock is free
C4_Witness ==
    \E t \in Threads :
        /\ ret[t].op = "size"
        /\ ret[t].n > 0
        /\ mu["q"] = NoThread
        /\ Len(data["q"]) > 0
        /\ ret[t].n = SumLen(data["q"])

\* whether b fits the queue as t found it when it took the lock
Fits(t, b) ==
    /\ Len(old[t].data) + 1 <= maxMsgs
    /\ old[t].bytes + LenB(b) <= maxBytes

\* C5: an enqueue of an item within the size limit succeeds exactly when one
\* more item and len(item) more bytes fit the caps as found under the lock;
\* then the item is at the tail, the byte total has grown by its length and
\* the admitted counter by 1; otherwise it returns "queue full" and the items,
\* the byte total and the three counters are as found
C5_EnqueueAdmission ==
    [][\A t \in Threads :
         (Returns(t) /\ frame[t].op = "enqueue" /\ ~TooLarge(frame[t].b)) =>
            LET q == frame[t].q
                b == frame[t].b
            IN  /\ ret'[t].res \in {"nil", "queue full"}
                /\ ret'[t].res = "nil" <=> Fits(t, b)
                /\ ret'[t].res = "nil" =>
                     /\ Contents(data'[q]) = Contents(old[t].data) \o << Bytes(b) >>
                     /\ bytes'[q] = old[t].bytes + LenB(b)
                     /\ enqueueCnt' = old[t].enq + 1
                     /\ dequeueCnt' = old[t].deq
                     /\ dequeueMiss' = old[t].miss
                /\ ret'[t].res = "queue full" =>
                     /\ data'[q] = old[t].data
                     /\ bytes'[q] = old[t].bytes
                     /\ enqueueCnt' = old[t].enq
                     /\ dequeueCnt' = old[t].deq
                     /\ dequeueMiss' = old[t].miss
      ]_vars

\* one enqueue has been admitted and another has been refused as full
C5_Witness ==
    \E t, u \in Threads :
        /\ ret[t].op = "enqueue" /\ ret[t].res = "queue full"
        /\ ret[u].op = "enqueue" /\ ret[u].res = "nil"

\* C6: an item longer than maxBody is rejected with "payload too large", never
\* with "queue full", whatever the queue holds, and the call changes neither
\* the items nor the byte total nor the counters
C6_OversizedRejected ==
    [][\A t \in Threads :
         /\ (Moves(t) /\ frame'[t].op = "enqueue" /\ LenB(frame'[t].b) > maxBody) =>
               /\ pc'[t] = "enq_size"
               /\ UNCHANGED << data, bytes, Counters >>
         /\ (Moves(t) /\ frame[t].op = "enqueue" /\ LenB(frame[t].b) > maxBody) =>
               /\ pc[t] = "enq_size"
               /\ pc'[t] = "idle"
               /\ ret'[t].res = "payload too large"
               /\ UNCHANGED << data, bytes, Counters >>
      ]_vars

\* an oversized item has been rejected by a queue that enqueues have filled
\* to its count cap
C6_Witness ==
    \E t \in Threads :
        /\ ret[t].op = "enqueue"
        /\ ret[t].res = "payload too large"
        /\ Len(data["q"]) = maxMsgs
        /\ enqueueCnt = maxMsgs

\* C8: a dequeue that finds the queue empty returns Empty, adds 1 to the miss
\* counter and changes nothing else; one that finds items returns the item at
\* index 0, leaves the other items in their order, takes the item's length off
\* the byte total and adds 1 to the removed counter only
C8_DequeueEffect ==
    [][\A t \in Threads :
         (Returns(t) /\ frame[t].op = "dequeue") =>
            LET q == frame[t].q
            IN  /\ ret'[t].res \in {"ok", "empty"}
                /\ ret'[t].res = "empty" <=> old[t].data = <<>>
                /\ ret'[t].res = "empty" =>
                     /\ data'[q] = old[t].data
                     /\ bytes'[q] = old[t].bytes
                     /\ dequeueMiss' = old[t].miss + 1
                     /\ enqueueCnt' = old[t].enq
                     /\ dequeueCnt' = old[t].deq
                /\ ret'[t].res = "ok" =>
                     /\ ret'[t].b = Head(old[t].data)
                     /\ data'[q] = Tail(old[t].data)
                     /\ bytes'[q] = old[t].bytes - LenB(Head(old[t].data))
                     /\ dequeueCnt' = old[t].deq + 1
                     /\ dequeueMiss' = old[t].miss
                     /\ enqueueCnt' = old[t].enq
      ]_vars

\* a dequeue has returned an item and left another one behind, and a dequeue
\* has found the queue empty
C8_Witness ==
    /\ \E t \in Threads :
         ret[t].op = "dequeue" /\ ret[t].res = "ok" /\ Len(data["q"]) > 0
    /\ dequeueMiss > 0

\* the positions inside clear's critical section
InClear == {"clear_data", "clear_bytes", "clear_unlock"}

\* the positions at which length(), size() and dequeue read the queue
Observing == {"length_read", "size_read", "deq_check", "deq_take"}

LoadReading == {"load_open", "load_decode", "load_close", "load_total", "load_lock"}

\* C11: a load that fails, because the file cannot be opened, read or closed
\* or because its text is malformed, returns the error from a position before
\* the lock is taken, and no step of a load up to there changes the items, the
\* byte total or the counters
C11_FailedLoadChangesNothing ==
    [][\A t \in Threads :
         /\ (Moves(t) /\ frame'[t].op = "load" /\ pc[t] = "idle") =>
               UNCHANGED << data, bytes, Counters >>
         /\ (Moves(t) /\ frame[t].op = "load" /\ pc[t] \in LoadReading) =>
               UNCHANGED << data, bytes, Counters >>
         /\ (Returns(t) /\ frame[t].op = "load" /\ ret'[t].res # "nil") =>
               /\ pc[t] \in LoadReading
               /\ ret'[t].res \in {"open failed", "decode failed", "read failed",
                                   "close failed"}
               /\ mu[frame[t].q] # t
               /\ UNCHANGED << data, bytes, Counters >>
      ]_vars

\* a load has failed on malformed text and another has failed to open the
\* file, on a queue that holds an item
C11_Witness ==
    \E t, u \in Threads :
        /\ ret[t].op = "load" /\ ret[t].res = "decode failed"
        /\ ret[u].op = "load" /\ ret[u].res = "open failed"
        /\ Len(data["q"]) > 0
        /\ enqueueCnt > 0

\* the positions inside load's critical section
InLoad == {"load_data", "load_bytes", "load_unlock"}

\* the positions at which enqueue, dequeue, length() and size() read or write
\* the queue
Touching ==
    {"enq_check", "enq_append", "enq_bytes", "deq_check", "deq_take",
     "deq_bytes", "length_read", "size_read"}

\* C12: a load that succeeds leaves exactly the items decoded from the file
\* in the queue, none of the items held before among them, and the sum of
\* their lengths as the byte total; it makes both assignments in one critical section that no
\* enqueue, dequeue, length() or size() reads or writes into, and what these
\* find under the lock is a byte total that matches the items
C12_LoadReplacesAtomically ==
    [][\A t \in Threads :
         /\ (Returns(t) /\ frame[t].op = "load" /\ ret'[t].res = "nil") =>
               /\ data'[frame[t].q] = frame[t].d
               /\ bytes'[frame[t].q] = SumLen(frame[t].d)
         /\ (Moves(t) /\ pc[t] = "load_decode" /\ pc'[t] = "load_close") =>
               frame'[t].d = JsonDecode(disk[fd[t]]).val
         /\ (Moves(t) /\ pc[t] \in {"enq_check", "deq_check", "length_read", "size_read"}) =>
               bytes[frame[t].q] = SumLen(data[frame[t].q])
         /\ (Moves(t) /\ pc[t] \in Touching) =>
               \A u \in Threads \ {t} :
                   ~(pc[u] \in InLoad /\ frame[u].q = frame[t].q)
      ]_vars

\* a load has put the decoded items in q.data of a queue that held other
\* items, q.bytes is still the old total, and an enqueue, a dequeue, a length()
\* or a size() is waiting for the lock
C12_Witness ==
    \E t, u \in Threads :
        /\ pc[t] = "load_bytes"
        /\ old[t].data # <<>>
        /\ bytes[frame[t].q] # SumLen(data[frame[t].q])
        /\ pc[u] \in {"enq_lock", "deq_lock", "length_lock", "size_lock"}

(***************************************************************************)
(* Properties of snapshots taken one after the other (SpecPersist).        *)
(***************************************************************************)
\* what a reader finds under the name n in the directory dr of disk dk
TextAt(dr, dk, n) == IF dr[n] = NoInode THEN << "absent" >> ELSE dk[dr[n]]

\* the errors persist returns
PersistErrors == {"create failed", "encode failed", "close failed", "rename failed"}

\* C13: the file at the destination changes in one step only, the rename of
\* a persist that returns nil, and it is then the complete serialization of
\* the items that call copied; until then it is the prior file, or absent.  A
\* persist that fails at create, encode, close or rename returns the error,
\* ends there, and leaves the file at the destination as it was
C13_DestinationNeverPartial ==
    [][/\ TextAt(dir', disk', Dest) # TextAt(dir, disk, Dest) =>
            \E t \in Threads :
                /\ Returns(t) /\ frame[t].op = "persist"
                /\ pc[t] = "persist_rename"
                /\ ret'[t].res = "nil"
                /\ TextAt(dir', disk', Dest) = JsonEncode(LastCopy.b)
                /\ JsonDecode(TextAt(dir', disk', Dest)).ok
                /\ Contents(JsonDecode(TextAt(dir', disk', Dest)).val) = Contents(LastCopy.b)
       /\ \A t \in Threads :
            (Returns(t) /\ frame[t].op = "persist") =>
                /\ ret'[t].res \in PersistErrors \cup {"nil"}
                /\ ret'[t].res \in PersistErrors =>
                     /\ TextAt(dir', disk', Dest) = TextAt(dir, disk, Dest)
                     /\ fd'[t] = NoInode
                /\ ret'[t].res = "nil" => pc[t] = "persist_rename"
      ]_vars

\* a persist has replaced the file at the destination, and a later persist of
\* other items has failed part way through its write: the temporary holds
\* part of a text, the destination still the whole earlier one
C13_Witness ==
    /\ ret["t2"].op = "persist"
    /\ ret["t2"].res = "encode failed"
    /\ Len(SelectSeq(log, IsPersisted)) > 0
    /\ dir[Dest] # NoInode
    /\ dir[TmpOf(Dest)] # NoInode
    /\ disk[dir[TmpOf(Dest)]] # <<>>
    /\ ~JsonDecode(disk[dir[TmpOf(Dest)]]).ok
    /\ JsonDecode(disk[dir[Dest]]).ok
    /\ JsonDecode(disk[dir[Dest]]).val # <<>>
    /\ Contents(JsonDecode(disk[dir[Dest]]).val) # Contents(LastCopy.b)

(***************************************************************************)
(* Properties of producers and consumers (SpecDrain).                      *)
(***************************************************************************)
\* the dequeues that returned an item, in the order they returned
ReturnedSoFar == SelectSeq(log, LAMBDA e : e.op = "dequeue" /\ e.res = "ok")

\* how many events of the sequence s carry the payload b
Carrying(s, b) == Cardinality({i \in 1..Len(s) : Bytes(s[i].b) = Bytes(b)})

\* every producer has made its calls and every consumer has left its loop
AllFinished ==
    /\ EnqueuesBegun = DrainTotal
    /\ \A t \in Threads : pc[t] \in {"idle", "done"}
    /\ \A t \in Threads : ret[t].op = "dequeue" => pc[t] = "done"
    /\ \E t \in Threads : pc[t] = "done"

\* C14: once the producers have made their DrainTotal enqueues and every
\* consumer has left its loop, with no clear and no load, every enqueue was
\* admitted, enqueueCnt and dequeueCnt are both DrainTotal, the queue holds
\* no item and no byte, and every payload was returned by dequeue as many
\* times as it was admitted
C14_Conservation ==
    AllFinished =>
        /\ Len(AcceptedSoFar) = DrainTotal
        /\ enqueueCnt = DrainTotal
        /\ dequeueCnt = DrainTotal
        /\ Len(data["q"]) = 0
        /\ bytes["q"] = 0
        /\ Len(ReturnedSoFar) = DrainTotal
        /\ \A b \in SmallPayloads :
             Carrying(ReturnedSoFar, b) = Carrying(AcceptedSoFar, b)

\* two different items were sent, two consumers have taken them between them
\* and have each found the queue empty, and all have finished
C14_Witness ==
    /\ AllFinished
    /\ Cardinality({t \in Threads : pc[t] = "done"}) = 2
    /\ AcceptedSoFar[1].b # AcceptedSoFar[2].b
    /\ dequeueMiss >= 2

(***************************************************************************)
(* Properties of the order of concurrent calls (SpecOrder).                *)
(***************************************************************************)
\* the event at i is a dequeue that returned an item
TookAt(i) == log[i].op = "dequeue" /\ log[i].res = "ok"

\* the event at i is the return of the enqueue that was admitted with the
\* item the dequeue at j returned
AdmittedAt(i, j) ==
    /\ log[i].op = "enqueue" /\ log[i].res = "nil"
    /\ Bytes(log[i].b) = Bytes(log[j].b)

\* the event at i is the start of the enqueue that sent the item the dequeue
\* at j returned
SentAt(i, j) ==
    /\ log[i].op = "invoke" /\ log[i].res = "enqueue"
    /\ Bytes(log[i].b) = Bytes(log[j].b)

\* C15: dequeue returns under the lock, so dequeues return in the order they
\* take effect.  No item comes back from two dequeues; every item a dequeue
\* returns was admitted by an enqueue that returned before it; and when the
\* enqueue of a returned before the enqueue of b started, b is never
\* returned before a
C15_LinearizableFifo ==
    \A j \in 1..Len(log) :
        TookAt(j) =>
            /\ \E i \in 1..(j - 1) : AdmittedAt(i, j)
            /\ \A k \in (j + 1)..Len(log) :
                 TookAt(k) =>
                    /\ Bytes(log[k].b) # Bytes(log[j].b)
                    /\ ~\E r, s \in 1..Len(log) :
                          /\ r < s
                          /\ AdmittedAt(r, k)
                          /\ SentAt(s, j)

\* the enqueue of one item returned before the enqueue of another started,
\* a dequeue was running meanwhile, and both items have come back, from
\* different callers
C15_Witness ==
    \E i, s, j, k \in 1..Len(log) :
        /\ i < s /\ j < k
        /\ TookAt(j) /\ TookAt(k)
        /\ AdmittedAt(i, j)
        /\ SentAt(s, k)
        /\ \E d \in 1..(i - 1) :
             log[d].op = "invoke" /\ log[d].res = "dequeue"
        /\ \E t, u \in Threads :
             /\ t # u
             /\ ret[t].op = "dequeue" /\ ret[t].b = log[j].b
             /\ ret[u].op = "dequeue" /\ ret[u].b = log[k].b

(***************************************************************************)
(* Properties of the counters (SpecCount).                                 *)
(***************************************************************************)
\* how many events of the history satisfy Test
Count(Test(_)) == Len(SelectSeq(log, Test))

IsMiss(e) == e.op = "dequeue" /\ e.res = "empty"

IsTaken(e) == e.op = "dequeue" /\ e.res = "ok"

\* a clear, or a load that replaced the items
IsReplaced(e) == e.op = "clear" \/ (e.op = "load" /\ e.res = "nil")

\* with no call in flight the counters are the numbers of calls that returned
\* nil, an item and Empty, and on a queue no clear or load has touched the
\* admitted less the removed are the items held
CountersAccurate ==
    Quiet =>
        /\ enqueueCnt = Count(IsAccepted)
        /\ dequeueCnt = Count(IsTaken)
        /\ dequeueMiss = Count(IsMiss)
        /\ Count(IsReplaced) = 0 => enqueueCnt - dequeueCnt = Len(data["q"])

\* C16: whenever no call is in flight, enqueueCnt is the number of enqueues
\* that returned nil, dequeueCnt the number of dequeues that returned an item
\* and dequeueMiss the number of dequeues that returned Empty; no step makes a
\* counter smaller; and while no clear and no load has changed the queue,
\* which started empty, enqueueCnt - dequeueCnt is the number of items held
C16_QuiescentCounters ==
    [][/\ CountersAccurate
       /\ CountersAccurate'
       /\ enqueueCnt' >= enqueueCnt
       /\ dequeueCnt' >= dequeueCnt
       /\ dequeueMiss' >= dequeueMiss
      ]_vars

\* all calls have returned: an enqueue was admitted, a dequeue took the
\* item, another found the queue empty, and a clear or a load has run
C16_Witness ==
    /\ Quiet
    /\ enqueueCnt = 1
    /\ dequeueCnt = 1
    /\ dequeueMiss = 1
    /\ Len(log) = CountCalls
    /\ \E i \in 1..Len(log) : log[i].op \in {"clear", "load"}

(***************************************************************************)
(* Properties of the /enqueue handler (SpecHttp).                          *)
(***************************************************************************)
\* t writes its response in this step
Responds(t) == ret'[t].op = "POST /enqueue" /\ ret[t].op # "POST /enqueue"

\* C17: the handler answers 413 exactly when the body it was sent is longer
\* than maxBody, and then q.enqueue is not entered and the queue and the
\* counters stay as they are; a body within the size that was read gets 429
\* exactly when the queue is at its count or byte cap when enqueue holds the
\* lock and 202 exactly when the item was appended, and no other status; 400
\* is the answer to a failed read only
C17_EnqueueStatus ==
    [][\A t \in Threads :
         /\ (Moves(t) /\ pc[t] = "h_size") =>
               IF Len(frame[t].b) > maxBody
               THEN /\ Responds(t)
                    /\ ret'[t].n = 413
                    /\ pc'[t] = "idle"
                    /\ UNCHANGED << data, bytes, Counters >>
               ELSE /\ pc'[t] = "enq_size"
                    /\ frame'[t].b = frame[t].b
         /\ (Moves(t) /\ pc[t] = "enq_size") => pc'[t] = "enq_lock"
         /\ (Returns(t) /\ frame[t].op = "enqueue") =>
               /\ Len(frame[t].b) <= maxBody
               /\ ret'[t].res \in {"nil", "queue full"}
               /\ ret'[t].res = "queue full" <=>
                     \/ Len(old[t].data) >= maxMsgs
                     \/ old[t].bytes + Len(frame[t].b) > maxBytes
               /\ ret'[t].res = "queue full" =>
                     /\ data'["q"] = old[t].data
                     /\ enqueueCnt' = old[t].enq
               /\ ret'[t].res = "nil" =>
                     /\ Contents(data'["q"]) = Contents(old[t].data) \o << frame[t].b >>
                     /\ enqueueCnt' = old[t].enq + 1
         /\ Responds(t) =>
               /\ ret'[t].n \in {202, 400, 413, 429}
               /\ ret'[t].n = 413 <=> pc[t] = "h_size"
               /\ ret'[t].n = 400 <=> pc[t] = "h_read"
               /\ ret'[t].n = 202 <=> (Replying(t) /\ ret[t].res = "nil")
               /\ ret'[t].n = 429 <=> (Replying(t) /\ ret[t].res = "queue full")
               /\ ret'[t].n \in {202, 429} => ret'[t].b = ret[t].b
               /\ UNCHANGED << data, bytes, Counters >>
      ]_vars

\* one request was answered 202, one 429 by the full queue, and a body of
\* more than maxBody + 1 bytes is about to be answered
C17_Witness ==
    \E t, u \in Threads :
        /\ t # u
        /\ ret[t].n = 429
        /\ Len(data["q"]) = maxMsgs
        /\ pc[u] = "h_size"
        /\ Len(frame[u].b) > maxBody + 1

(***************************************************************************)
(* The README's table of endpoints on POST /clear (specification Spec;     *)
(* the handler calls q.clear() and answers 200).                           *)
(***************************************************************************)
\* C18: when clear returns, the queue holds no item and no byte and the three
\* counters enqueueCnt, dequeueCnt and dequeueMiss are zero
C18_ClearResetsCounters ==
    [][\A t \in Threads :
         (Returns(t) /\ frame[t].op = "clear") =>
             /\ data'[frame[t].q] = <<>>
             /\ bytes'[frame[t].q] = 0
             /\ enqueueCnt' = 0
             /\ dequeueCnt' = 0
             /\ dequeueMiss' = 0
      ]_vars

(***************************************************************************)
(* Properties of snapshots that overlap (SpecOverlap).                     *)
(***************************************************************************)
\* C19: when persist calls on the same destination overlap, the file at the
\* destination right after the rename of each of them is the complete
\* serialization of the items one of the persist calls copied under the lock
C19_OverlappingPersistComplete ==
    [][\A t \in Threads :
         (Returns(t) /\ frame[t].op = "persist" /\ ret'[t].res = "nil") =>
             \E i \in 1..Len(log) :
                 /\ IsCopy(log[i])
                 /\ TextAt(dir', disk', Dest) = JsonEncode(log[i].b)
      ]_vars

\* the positions of persist at which it works on files
PersistWriting == {"persist_create", "persist_encode", "persist_close", "persist_rename"}

\* t is in persist and holds no lock while it works on files
FilesUnlocked(t) == pc[t] \in PersistWriting => \A q \in Queues : mu[q] # t

\* C20: persist holds q.mu while it copies the items and at no position where
\* it creates, writes, closes or renames a file, so other calls take the lock
\* and complete meanwhile; what it writes is the serialization of the items
\* it copied, whatever enqueue, dequeue and clear have done to the queue
\* since; and no step of persist changes the items, the byte total or a
\* counter
C20_PersistLocksOnlyToCopy ==
    [][\A t \in Threads :
         /\ FilesUnlocked(t)
         /\ FilesUnlocked(t)'
         /\ (Moves(t) /\ pc[t] = "persist_copy") =>
               /\ mu[frame[t].q] = t
               /\ frame'[t].snap = data[frame[t].q]
         /\ (Moves(t) /\ pc[t] = "persist_encode" /\ pc'[t] = "persist_close") =>
               disk'[fd[t]] = JsonEncode(LastCopy.b)
         /\ (Moves(t) /\ (frame[t].op = "persist" \/ frame'[t].op = "persist")) =>
               UNCHANGED << data, bytes, Counters >>
      ]_vars

\* a persist has written the items it copied and has not yet renamed the
\* file; since the copy an enqueue, a dequeue or a clear has completed, and
\* the queue no longer holds what was copied
C20_Witness ==
    /\ pc["t2"] = "persist_close"
    /\ LastCopy.b # <<>>
    /\ disk[fd["t2"]] = JsonEncode(LastCopy.b)
    /\ pc["t1"] = "idle"
    /\ ret["t1"].op \in {"enqueue", "dequeue", "clear"}
    /\ Contents(data["q"]) # Contents(LastCopy.b)
    /\ mu["q"] = NoThread

(***************************************************************************)
(* Where the counters are incremented (specification Spec).                *)
(***************************************************************************)
\* C21: the increments of enqueueCnt, dequeueCnt and dequeueMiss made by
\* enqueue and dequeue happen while the caller does not hold q.mu; the
\* empty-dequeue path in particular increments dequeueMiss without the lock
C21_CountersOutsideLock ==
    [][\A t \in Threads :
         (Moves(t) /\ Counters' # Counters) => mu[frame[t].q] # t
      ]_vars

(***************************************************************************)
(* Mutual exclusion (specification Spec).                                  *)
(***************************************************************************)
\* C22: at most one caller at a time is inside a critical section that reads
\* or writes q.data or q.bytes (the bodies of enqueue, dequeue, clear, length
\* and size, the copy step of persist, the replace step of load): no two of
\* them overlap on the same queue, and the one inside holds q.mu
C22_MutualExclusion ==
    \A t \in Threads :
        pc[t] \in Critical =>
            /\ mu[frame[t].q] = t
            /\ \A u \in Threads \ {t} :
                   ~(pc[u] \in Critical /\ frame[u].q = frame[t].q)

\* one caller is replacing the items in load while the other, in clear,
\* waits for the lock of the same queue
C22_Witness ==
    /\ pc["t1"] = "load_data"
    /\ pc["t2"] = "clear_lock"
    /\ frame["t1"].q = frame["t2"].q
    /\ mu["q"] = "t1"
    /\ data["q"] # <<>>

(***************************************************************************)
(* Termination (specification SpecLive).                                   *)
(***************************************************************************)
\* no call is in progress
NoneInProgress == \A t \in Threads : pc[t] = "idle"

\* C23: every operation releases q.mu on every path (success, Full, Empty,
\* I/O or decode error) before it returns, and waits for nothing but the
\* lock: a call can take a step exactly when it is not waiting for a lock
\* that is held; hence with a fair lock every enqueue, dequeue, clear,
\* length, size, persist and load that is invoked returns, there is no
\* deadlock, and the lock is free whenever no operation is in progress
C23_EveryCallReturns ==
    /\ [][\A t \in Threads : Returns(t) => \A q \in Queues : mu'[q] # t]_vars
    /\ [](NoneInProgress => \A q \in Queues : mu[q] = NoThread)
    /\ [](\A t \in Workers : Runnable(t) <=> ENABLED Step(t))
    /\ \A t \in Workers : (pc[t] # "idle") ~> (pc[t] = "idle")

\* both calls of the run have returned, the second of them an enqueue that
\* took the lock, found the queue full and returned "queue full"; the lock
\* is free
C23_Witness ==
    /\ NoneInProgress
    /\ ret["t1"].op = "enqueue" /\ ret["t1"].res = "nil"
    /\ ret["t2"].op = "enqueue" /\ ret["t2"].res = "queue full"
    /\ data["q"] = << Pattern(maxBody) >>
    /\ mu["q"] = NoThread

(***************************************************************************)
(* Properties of the metrics (specification SpecStats).  The instants of   *)
(* the queue are told from the history: between two calls returning, the   *)
(* items are what the calls returned so far have left.                     *)
(***************************************************************************)
\* the items after a call has returned e
Applied(items, e) ==
    IF e.op = "enqueue" /\ e.res = "nil" THEN Append(items, Bytes(e.b))
    ELSE IF e.op = "dequeue" /\ e.res = "ok" THEN Tail(items)
    ELSE IF e.op = "clear" THEN <<>>
    ELSE items

\* the items after the first k events of the history
RECURSIVE ItemsAfter(_)
ItemsAfter(k) == IF k = 0 THEN <<>> ELSE Applied(ItemsAfter(k - 1), log[k])

\* the event at j is the response to a /metrics request
IsMetrics(j) == log[j].op = "GET /metrics"

\* the event at i is the arrival of the request answered at j
AskedAt(i, j) ==
    /\ i < j
    /\ log[i].op = "invoke" /\ log[i].res = "GET /metrics"
    /\ \A k \in (i + 1)..(j - 1) : ~(log[k].op = "invoke" /\ log[k].res = "GET /metrics")

\* C24: each value of one /metrics result is a value its source held at some
\* instant during that call: enqueues, dequeues_ok and dequeues_empty are
\* each a read of that counter, which only ever grows by one, made between
\* the arrival of the request and the response; queue_length is the number
\* of items and queue_bytes the byte total the queue held at one instant of
\* the call, each read with q.mu held; the fields need not come from the
\* same instant
C24_MetricsValuesHeld ==
    /\ [](\A j \in 1..Len(log) : IsMetrics(j) =>
             \E i \in 1..j : /\ AskedAt(i, j)
                             /\ \E k \in i..j : log[j].b[4] = Len(ItemsAfter(k))
                             /\ \E k \in i..j : log[j].b[5] = SumLen(ItemsAfter(k)))
    /\ [][/\ enqueueCnt' \in {enqueueCnt, enqueueCnt + 1}
          /\ dequeueCnt' \in {dequeueCnt, dequeueCnt + 1}
          /\ dequeueMiss' \in {dequeueMiss, dequeueMiss + 1}
          /\ \A t \in Threads :
               /\ (Moves(t) /\ pc[t] \in {"m_length_read", "m_size_read"}) =>
                      mu[frame[t].q] = t
               /\ (Returns(t) /\ frame[t].op = "GET /metrics") =>
                      /\ Len(ret'[t].b) = 5
                      /\ \A c \in 1..3 :
                            /\ frame[t].start[c] <= ret'[t].b[c]
                            /\ ret'[t].b[c] <= Counters[c]
         ]_vars

\* a response whose fields come from different instants: while the request
\* was served an item was admitted and then taken, so that the counters read
\* first miss both, the length read next is 1 and the byte total read last
\* is 0
C24_Witness ==
    /\ pc["t2"] = "idle"
    /\ ret["t2"].op = "GET /metrics"
    /\ ret["t2"].b = << 0, 0, 0, 1, 0 >>
    /\ enqueueCnt = 1
    /\ dequeueCnt = 1

(***************************************************************************)
(* The size of the items held (specification Spec).                        *)
(***************************************************************************)
\* C25: in every reachable state every item held in the queue has at most
\* maxBody bytes, whichever operation put it there (enqueue or load)
C25_ItemsWithinMaxBody ==
    \A q \in Queues : \A i \in 1..Len(data[q]) : LenB(data[q][i]) <= maxBody

=============================================================================
